---- MODULE Spec2Model ----
(***************************************************************************)
(* drake::NAryState<ScalarType, UnitVector> (drake/systems/n_ary_state.h). *)
(*                                                                         *)
(* One NAryState instance: its three data members, the template            *)
(* instantiation's unit row count, and one action per constructor and      *)
(* member function.  std::size_t and std::ptrdiff_t are modelled as        *)
(* SizeBits-wide unsigned / two's-complement integers, so that the         *)
(* products and conversions of the row/count codec wrap as they do in the  *)
(* program (where SizeBits is 64).  Heap exhaustion is not modelled: a     *)
(* column vector holds at most MaxRows rows, and MaxRows is far below      *)
(* 2^(SizeBits-1), as the addressable memory is in the program.            *)
(***************************************************************************)
EXTENDS Integers, Sequences, FiniteSets, TLC

\* ------------------------------------------------------------------ bounds
\* Width of std::size_t / std::ptrdiff_t in the model.
SizeBits == 5
\* Largest column vector that can be allocated.
MaxRows == 4

SizeMod == 2 ^ SizeBits
\* Values of std::size_t.
SizeT == 0 .. (SizeMod - 1)
\* Values of std::ptrdiff_t.
PtrdiffT == (0 - (SizeMod \div 2)) .. ((SizeMod \div 2) - 1)

\* Conversion of an integer value to std::size_t (modulo 2^SizeBits).
ToSize(x) == x % SizeMod
\* Conversion of an integer value to std::ptrdiff_t (two's complement).
ToPtrdiff(x) == IF (x % SizeMod) >= (SizeMod \div 2) THEN (x % SizeMod) - SizeMod ELSE x % SizeMod

\* ----------------------------------------------------------------- scalars
\* The poison value of the sized constructor.
NAN == "NaN"
\* Values of ScalarType.
Scalars == {NAN, "1.0"}
\* Row counts of the UnitVector types the container is instantiated with.
UnitSizes == {0, 1, 2, 3, 4}

\* Column vectors (Eigen::Matrix<ScalarType, Dynamic, 1>) of exactly n rows.
VectorsOfRows(n) == [1 .. n -> Scalars]
\* Column vectors that can be allocated.
FlatVectors == UNION {VectorsOfRows(n) : n \in 0 .. MaxRows}
\* Indices handed to get / set: every index near the stored range, and the
\* largest std::size_t.
Indices == (0 .. (MaxRows + 1)) \cup {SizeMod - 1}

VARIABLES
  unitVectorRows,    \* UnitVector<ScalarType>().size() of the instantiation
  obj,               \* "none" (not constructed), "live", "failed" (ctor threw)
  unit_size_,        \* member unit_size_
  count_,            \* member count_
  combined_vector_,  \* member combined_vector_
  last,              \* the last call: its arguments and outcome
  appended           \* units appended since the container was last empty

vars == <<unitVectorRows, obj, unit_size_, count_, combined_vector_, last, appended>>

\* Values of UnitVector<ScalarType>, as their Eigen representation.
Units == VectorsOfRows(unitVectorRows)

\* ------------------------------------------------------ Eigen primitives
\* EigenType::Constant(rows, 1, value).
Constant(rows, value) == [k \in 1 .. rows |-> value]

\* What a read outside the rows of a vector yields (undefined behaviour).
OutOfBuffer == "out-of-buffer"

\* vec.block(row0, 0, n, 1) read as a value (row0 is zero-based).
Block(vec, row0, n) ==
  [k \in 1 .. n |-> IF row0 + k <= Len(vec) THEN vec[row0 + k] ELSE OutOfBuffer]

\* Variant of BlockAssign: the block starts one row early (row0 taken as
\* one-based).
BlockAssignOneRowEarly(vec, row0, n, src) ==
  [k \in 1 .. Len(vec) |->
     IF k >= row0 /\ k < row0 + n /\ k >= 1 THEN src[k - row0 + 1] ELSE vec[k]]

\* vec.block(row0, 0, n, 1) = src.
BlockAssign(vec, row0, n, src) ==
  [k \in 1 .. Len(vec) |-> IF k > row0 /\ k <= row0 + n THEN src[k - row0] ELSE vec[k]]

\* Variant of conservativeResize: a plain resize(), which keeps no row.
resizeDiscarding(vec, rows, junk) == [k \in 1 .. rows |-> junk]

\* vec.conservativeResize(rows, NoChange): the common prefix is kept, rows
\* beyond the old length are uninitialized (they hold junk).
conservativeResize(vec, rows, junk) ==
  [k \in 1 .. rows |-> IF k <= Len(vec) THEN vec[k] ELSE junk]

\* ------------------------------------------------------- unit size, codec
\* static unit_size().
unit_size == unitVectorRows

\* Variant of unitCountFromRows: the multiple-of-unit check is missing.
unitCountFromRowsUnchecked(rows) ==
  LET us == unit_size IN
  IF us > 0
    THEN [err |-> "none", val |-> ToPtrdiff(rows \div us)]
    ELSE [err |-> "none", val |-> -1]

\* Variant of unitCountFromRows: a null unit counts as zero units.
unitCountFromRowsNullZero(rows) ==
  LET us == unit_size IN
  IF us > 0
    THEN IF (rows % us) # 0
           THEN [err |-> "NonMultipleRowCount", val |-> 0]
           ELSE [err |-> "none", val |-> ToPtrdiff(rows \div us)]
    ELSE [err |-> "none", val |-> 0]

\* static unitCountFromRows(rows): [err, val].
unitCountFromRows(rows) ==
  LET us == unit_size IN
  IF us > 0
    THEN IF (rows % us) # 0
           THEN [err |-> "NonMultipleRowCount", val |-> 0]
           ELSE [err |-> "none", val |-> ToPtrdiff(rows \div us)]
    ELSE [err |-> "none", val |-> -1]

\* Variant of rowsFromUnitCount: a negative count never throws.
rowsFromUnitCountNoThrow(count) ==
  LET us == unit_size IN
  IF count >= 0
    THEN [err |-> "none", val |-> ToSize(ToSize(count) * us)]
    ELSE [err |-> "none", val |-> 0]

\* Variant of rowsFromUnitCount: a negative count throws for a null unit too.
rowsFromUnitCountAlwaysThrows(count) ==
  LET us == unit_size IN
  IF count >= 0
    THEN [err |-> "none", val |-> ToSize(ToSize(count) * us)]
    ELSE [err |-> "NegativeCountForNonNullUnit", val |-> 0]

\* static rowsFromUnitCount(count): [err, val].
rowsFromUnitCount(count) ==
  LET us == unit_size IN
  IF count >= 0
    THEN [err |-> "none", val |-> ToSize(ToSize(count) * us)]
    ELSE IF us # 0
           THEN [err |-> "NegativeCountForNonNullUnit", val |-> 0]
           ELSE [err |-> "none", val |-> 0]

\* ------------------------------------------------------------- observers
\* count().
count == count_
\* size().
size == Len(combined_vector_)
\* toEigen(vec).
toEigen == combined_vector_

\* Variant of IndexAccepted: the null-unit exemption is missing.
IndexAcceptedNoNullCase(i) == i < ToSize(count_)

\* Variant of IndexAccepted: the comparison is i <= count_.
IndexAcceptedInclusive(i) == (unit_size_ = 0) \/ (i <= ToSize(count_))

\* The bounds check shared by get and set: i is a std::size_t, count_ is
\* converted to std::size_t for the comparison.
IndexAccepted(i) == (unit_size_ = 0) \/ (i < ToSize(count_))

\* get(i) as a value: [err, ret, row0].
GetResult(i) ==
  IF ~IndexAccepted(i)
    THEN [err |-> "OutOfRange", ret |-> <<>>, row0 |-> 0]
    ELSE LET row0 == ToSize(i * unit_size_) IN
         [err |-> "none", ret |-> Block(combined_vector_, row0, unit_size_), row0 |-> row0]

\* ------------------------------------------------------------ call record
NoCall ==
  [op |-> "none", err |-> "none", cnt |-> 0, i |-> 0, unit |-> <<>>, vec |-> <<>>,
   ret |-> <<>>, row0 |-> 0, calls |-> 0]

Call(op, err) == [NoCall EXCEPT !.op = op, !.err = err]

NoAppended == [valid |-> FALSE, units |-> <<>>]
\* The append log restarts whenever the container becomes empty.
AppendedAfterLoad(vec) == [valid |-> (vec = <<>>), units |-> <<>>]

\* ------------------------------------------------------------------- Init
Init ==
  /\ unitVectorRows \in UnitSizes
  /\ obj = "none"
  /\ unit_size_ = 0
  /\ count_ = 0
  /\ combined_vector_ = <<>>
  /\ last = NoCall
  /\ appended = NoAppended

\* A constructor that throws: no object exists afterwards.
CtorThrows(rec) ==
  /\ obj' = "failed"
  /\ last' = rec
  /\ UNCHANGED <<unitVectorRows, unit_size_, count_, combined_vector_, appended>>

\* Variant of NAryState(): count_ starts as "not counted" for every unit.
DefaultConstructUncounted ==
  /\ obj = "none"
  /\ obj' = "live"
  /\ unit_size_' = unit_size
  /\ count_' = -1
  /\ combined_vector_' = <<>>
  /\ last' = [Call("NAryState()", "none") EXCEPT !.calls = 2]
  /\ appended' = AppendedAfterLoad(<<>>)
  /\ UNCHANGED unitVectorRows

\* Variant of NAryState(): unit_size_ is not taken from unit_size().
DefaultConstructNoCache ==
  /\ obj = "none"
  /\ LET c == unitCountFromRows(0) IN
     /\ obj' = "live"
     /\ unit_size_' = 0
     /\ count_' = c.val
     /\ combined_vector_' = <<>>
     /\ last' = [Call("NAryState()", "none") EXCEPT !.calls = 1]
     /\ appended' = AppendedAfterLoad(<<>>)
     /\ UNCHANGED unitVectorRows

\* NAryState().
DefaultConstruct ==
  /\ obj = "none"
  /\ LET c == unitCountFromRows(0) IN
     /\ obj' = "live"
     /\ unit_size_' = unit_size
     /\ count_' = c.val
     /\ combined_vector_' = <<>>
     /\ last' = [Call("NAryState()", "none") EXCEPT !.calls = 2]
     /\ appended' = AppendedAfterLoad(<<>>)
     /\ UNCHANGED unitVectorRows

\* explicit NAryState(std::ptrdiff_t count).  Members are initialized in
\* declaration order: unit_size_, count_, combined_vector_.
SizedConstruct(cnt) ==
  /\ obj = "none"
  /\ LET r == rowsFromUnitCount(cnt)
         c == unitCountFromRows(r.val)
         rec == [Call("NAryState(count)", "none") EXCEPT !.cnt = cnt]
     IN
     IF r.err # "none"
       THEN CtorThrows([rec EXCEPT !.err = r.err, !.calls = 2])
       ELSE IF c.err # "none"
              THEN CtorThrows([rec EXCEPT !.err = c.err, !.calls = 3])
              ELSE /\ r.val <= MaxRows
                   /\ obj' = "live"
                   /\ unit_size_' = unit_size
                   /\ count_' = c.val
                   /\ combined_vector_' = Constant(r.val, NAN)
                   /\ last' = [rec EXCEPT !.calls = 4]
                   /\ appended' = AppendedAfterLoad(Constant(r.val, NAN))
                   /\ UNCHANGED unitVectorRows

\* The members a new NAryState(initial) has, or the error its constructor
\* throws: [err, unit_size_, count_, combined_vector_].
FlatConstructResult(initial) ==
  LET c == unitCountFromRows(Len(initial)) IN
  IF c.err # "none"
    THEN [err |-> c.err, unit_size_ |-> 0, count_ |-> 0, combined_vector_ |-> <<>>]
    ELSE [err |-> "none", unit_size_ |-> unit_size, count_ |-> c.val,
          combined_vector_ |-> initial]

\* NAryState(const Eigen::MatrixBase<Derived>& initial).
FlatConstruct(initial) ==
  /\ obj = "none"
  /\ LET c == unitCountFromRows(Len(initial))
         rec == [Call("NAryState(initial)", "none") EXCEPT !.vec = initial, !.calls = 2]
     IN
     IF c.err # "none"
       THEN CtorThrows([rec EXCEPT !.err = c.err])
       ELSE /\ obj' = "live"
            /\ unit_size_' = unit_size
            /\ count_' = c.val
            /\ combined_vector_' = initial
            /\ last' = rec
            /\ appended' = AppendedAfterLoad(initial)
            /\ UNCHANGED unitVectorRows

\* Variant of append: count_ is not incremented.
appendWithoutCount(unit, junk) ==
  /\ obj = "live"
  /\ IF unit_size_ = 0
       THEN /\ last' = [Call("append", "none") EXCEPT !.unit = unit]
            /\ UNCHANGED <<unitVectorRows, obj, unit_size_, count_, combined_vector_, appended>>
       ELSE /\ Len(combined_vector_) + unit_size_ <= MaxRows
            /\ LET grown == conservativeResize(combined_vector_,
                                               Len(combined_vector_) + unit_size_, junk)
               IN combined_vector_' =
                    BlockAssign(grown, Len(grown) - unit_size_, unit_size_, unit)
            /\ last' = [Call("append", "none") EXCEPT !.unit = unit]
            /\ appended' = [appended EXCEPT !.units = Append(@, unit)]
            /\ UNCHANGED <<unitVectorRows, obj, unit_size_, count_>>

\* append(unit).
append(unit, junk) ==
  /\ obj = "live"
  /\ IF unit_size_ = 0
       THEN /\ last' = [Call("append", "none") EXCEPT !.unit = unit]
            /\ UNCHANGED <<unitVectorRows, obj, unit_size_, count_, combined_vector_, appended>>
       ELSE /\ Len(combined_vector_) + unit_size_ <= MaxRows
            /\ LET grown == conservativeResize(combined_vector_,
                                               Len(combined_vector_) + unit_size_, junk)
               IN combined_vector_' =
                    BlockAssign(grown, Len(grown) - unit_size_, unit_size_, unit)
            /\ count_' = count_ + 1
            /\ last' = [Call("append", "none") EXCEPT !.unit = unit]
            /\ appended' = [appended EXCEPT !.units = Append(@, unit)]
            /\ UNCHANGED <<unitVectorRows, obj, unit_size_>>

\* get(i).
get(i) ==
  /\ obj = "live"
  /\ LET g == GetResult(i) IN
     last' = [Call("get", g.err) EXCEPT !.i = i, !.ret = g.ret, !.row0 = g.row0]
  /\ UNCHANGED <<unitVectorRows, obj, unit_size_, count_, combined_vector_, appended>>

\* Variant of set: row0 is i, not i * unit_size_.
setAtUnscaledRow(i, unit) ==
  /\ obj = "live"
  /\ IF ~IndexAccepted(i)
       THEN /\ last' = [Call("set", "OutOfRange") EXCEPT !.i = i, !.unit = unit]
            /\ UNCHANGED <<unitVectorRows, obj, unit_size_, count_, combined_vector_, appended>>
       ELSE LET row0 == ToSize(i) IN
            /\ combined_vector_' = BlockAssign(combined_vector_, row0, unit_size_, unit)
            /\ last' = [Call("set", "none") EXCEPT !.i = i, !.unit = unit, !.row0 = row0]
            /\ appended' = IF unit_size_ = 0 THEN appended ELSE NoAppended
            /\ UNCHANGED <<unitVectorRows, obj, unit_size_, count_>>

\* set(i, unit).
set(i, unit) ==
  /\ obj = "live"
  /\ IF ~IndexAccepted(i)
       THEN /\ last' = [Call("set", "OutOfRange") EXCEPT !.i = i, !.unit = unit]
            /\ UNCHANGED <<unitVectorRows, obj, unit_size_, count_, combined_vector_, appended>>
       ELSE LET row0 == ToSize(i * unit_size_) IN
            /\ combined_vector_' = BlockAssign(combined_vector_, row0, unit_size_, unit)
            /\ last' = [Call("set", "none") EXCEPT !.i = i, !.unit = unit, !.row0 = row0]
            /\ appended' = IF unit_size_ = 0 THEN appended ELSE NoAppended
            /\ UNCHANGED <<unitVectorRows, obj, unit_size_, count_>>

\* Variant of operator=: the rows are validated but count_ keeps its value.
AssignKeepsCount(rhs) ==
  /\ obj = "live"
  /\ LET c == unitCountFromRows(Len(rhs))
         rec == [Call("operator=", "none") EXCEPT !.vec = rhs, !.calls = 1]
     IN
     IF c.err # "none"
       THEN /\ last' = [rec EXCEPT !.err = c.err]
            /\ UNCHANGED <<unitVectorRows, obj, unit_size_, count_, combined_vector_, appended>>
       ELSE /\ combined_vector_' = rhs
            /\ last' = rec
            /\ appended' = AppendedAfterLoad(rhs)
            /\ UNCHANGED <<unitVectorRows, obj, unit_size_, count_>>

\* Variant of operator=: combined_vector_ is stored before the rows are
\* validated.
AssignStoresFirst(rhs) ==
  /\ obj = "live"
  /\ LET c == unitCountFromRows(Len(rhs))
         rec == [Call("operator=", "none") EXCEPT !.vec = rhs, !.calls = 1]
     IN
     IF c.err # "none"
       THEN /\ combined_vector_' = rhs
            /\ last' = [rec EXCEPT !.err = c.err]
            /\ UNCHANGED <<unitVectorRows, obj, unit_size_, count_, appended>>
       ELSE /\ count_' = c.val
            /\ combined_vector_' = rhs
            /\ last' = rec
            /\ appended' = AppendedAfterLoad(rhs)
            /\ UNCHANGED <<unitVectorRows, obj, unit_size_>>

\* operator=(const Eigen::MatrixBase<Derived>& rhs).
Assign(rhs) ==
  /\ obj = "live"
  /\ LET c == unitCountFromRows(Len(rhs))
         rec == [Call("operator=", "none") EXCEPT !.vec = rhs, !.calls = 1]
     IN
     IF c.err # "none"
       THEN /\ last' = [rec EXCEPT !.err = c.err]
            /\ UNCHANGED <<unitVectorRows, obj, unit_size_, count_, combined_vector_, appended>>
       ELSE /\ count_' = c.val
            /\ combined_vector_' = rhs
            /\ last' = rec
            /\ appended' = AppendedAfterLoad(rhs)
            /\ UNCHANGED <<unitVectorRows, obj, unit_size_>>

Next ==
  \/ DefaultConstruct
  \/ \E cnt \in PtrdiffT : SizedConstruct(cnt)
  \/ \E initial \in FlatVectors : FlatConstruct(initial)
  \/ \E unit \in Units, junk \in Scalars : append(unit, junk)
  \/ \E i \in Indices : get(i)
  \/ \E i \in Indices, unit \in Units : set(i, unit)
  \/ \E rhs \in FlatVectors : Assign(rhs)

Spec == Init /\ [][Next]_vars

\* ================================================================ claims
RECURSIVE Flatten(_)
\* The concatenation of the Eigen representations of a list of units.
Flatten(units) == IF units = <<>> THEN <<>> ELSE Head(units) \o Flatten(Tail(units))

\* The units get(0), ..., get(count() - 1).
StoredUnits == [k \in 1 .. count |-> GetResult(k - 1).ret]

\* C1: for a non-null unit type, in every state of a constructed container
\* (whatever calls came before, failed ones included), size() equals
\* count() * unit_size and count() >= 0.
C1_SizeIsCountTimesUnitSize ==
  (obj = "live" /\ unit_size_ > 0) => (size = count * unit_size_ /\ count >= 0)

\* C1 witness: a two-unit container right after a flat-vector assignment
\* that failed.
C1_Witness ==
  /\ obj = "live" /\ unit_size_ = 2 /\ count = 2 /\ size = 4
  /\ last.op = "operator=" /\ last.err = "NonMultipleRowCount"

\* C2: for a null unit type count() is -1 in every state of a constructed
\* container, whatever constructor built it and whatever calls followed.
C2_NullUnitCountIsMinusOne ==
  (obj = "live" /\ unitVectorRows = 0) => count = -1

\* C2 witness: a null-unit container built by the sized constructor with a
\* requested count of 3.
C2_Witness ==
  /\ obj = "live" /\ unitVectorRows = 0
  /\ last.op = "NAryState(count)" /\ last.cnt = 3

\* C3: for a non-null unit type toEigen is the concatenation of get(0), ...,
\* get(count()-1); and after appending v1, ..., vn to an empty container
\* toEigen is v1 ++ ... ++ vn, size() is n * unit_size and get(k-1) is vk.
C3_ToEigenIsConcatenationOfUnits ==
  (obj = "live" /\ unit_size_ > 0) =>
    /\ \A i \in 0 .. (count - 1) : GetResult(i).err = "none"
    /\ toEigen = Flatten(StoredUnits)
    /\ appended.valid =>
         /\ toEigen = Flatten(appended.units)
         /\ size = Len(appended.units) * unit_size_
         /\ count = Len(appended.units)
         /\ \A k \in 1 .. Len(appended.units) :
              GetResult(k - 1).ret = appended.units[k]

\* C3 witness: two different units of two rows appended to an empty
\* container.
C3_Witness ==
  /\ obj = "live" /\ unit_size_ = 2 /\ appended.valid
  /\ Len(appended.units) = 2 /\ appended.units[1] # appended.units[2]

\* C4: for a non-null unit type, right after append(v) the call
\* get(count() - 1) succeeds and returns v.
C4_AppendThenGetLast ==
  (obj = "live" /\ unit_size_ > 0 /\ last.op = "append") =>
    /\ GetResult(ToSize(count - 1)).err = "none"
    /\ GetResult(ToSize(count - 1)).ret = last.unit

\* C4 witness: a second unit, different from the first, has just been
\* appended.
C4_Witness ==
  /\ obj = "live" /\ unit_size_ = 2 /\ last.op = "append" /\ count = 2
  /\ last.unit = <<"1.0", NAN>> /\ GetResult(0).ret # last.unit

\* C5: for a non-null unit type, a set(i, v) that passes the bounds check
\* makes get(i) return v, leaves get(j) as it was for every other j below
\* count(), and leaves count() and size() unchanged.
C5_SetOverwritesOnlyItsUnit ==
  [][\A i \in Indices :
       (obj = "live" /\ unit_size_ > 0 /\ last'.op = "set" /\ last'.err = "none"
          /\ last'.i = i) =>
         /\ (GetResult(i)').err = "none"
         /\ (GetResult(i)').ret = last'.unit
         /\ \A j \in 0 .. (count - 1) : (j # i) => (GetResult(j)' = GetResult(j))
         /\ count' = count
         /\ size' = size]_vars

\* C5 witness: unit 1 of a two-unit container has just been set, and unit 0
\* holds another value.
C5_Witness ==
  /\ obj = "live" /\ unit_size_ = 2 /\ count = 2
  /\ last.op = "set" /\ last.err = "none" /\ last.i = 1
  /\ GetResult(0).ret # GetResult(1).ret

\* C6: for a non-null unit type get(i) and set(i, v) fail with OutOfRange
\* exactly for the indices i >= count(), i == count() and the empty
\* container included.
C6_OutOfRangeIffIndexNotBelowCount ==
  (obj = "live" /\ unit_size_ > 0) =>
    /\ \A i \in SizeT : (GetResult(i).err = "OutOfRange") <=> (i >= count)
    /\ \A i \in SizeT : (GetResult(i).err = "none") <=> (i < count)
    /\ (last.op \in {"get", "set"}) =>
         /\ (last.err = "OutOfRange") <=> (last.i >= count)
         /\ (last.err = "none") <=> (last.i < count)

\* C6 witness: set(count(), v) has just failed on a container that holds
\* units.
C6_Witness ==
  /\ obj = "live" /\ unit_size_ > 0 /\ count = 2
  /\ last.op = "set" /\ last.i = count /\ last.err = "OutOfRange"

\* C7: for a non-null unit type of u rows, constructing from or assigning a
\* flat vector fails with NonMultipleRowCount exactly when its length is not
\* a multiple of u (7 rows with u = 2 fail).
C7_NonMultipleRowCountIffNotMultiple ==
  /\ (unitVectorRows > 0 /\ last.op \in {"NAryState(initial)", "operator="}) =>
       /\ (Len(last.vec) % unitVectorRows # 0) => (last.err = "NonMultipleRowCount")
       /\ (Len(last.vec) % unitVectorRows = 0) => (last.err = "none")
       /\ (last.op = "NAryState(initial)") => (obj = "failed" <=> last.err # "none")
  /\ (unitVectorRows = 2) => (unitCountFromRows(7).err = "NonMultipleRowCount")

\* C7 witness: a vector of three rows has just been refused by the
\* assignment of a container of two-row units.
C7_Witness ==
  /\ obj = "live" /\ unitVectorRows = 2 /\ last.op = "operator="
  /\ Len(last.vec) = 3 /\ last.err = "NonMultipleRowCount"

\* C8: a call on a constructed container that raises an error (a
\* flat-vector assignment failing with NonMultipleRowCount, a get or set
\* failing with OutOfRange) changes neither count() nor storage.
C8_ErrorsLeaveContainerUnchanged ==
  [][(obj = "live" /\ last'.err # "none") =>
       /\ obj' = "live"
       /\ unit_size_' = unit_size_
       /\ count' = count
       /\ combined_vector_' = combined_vector_]_vars

\* C8 witness: a failed assignment of a vector that differs from the
\* storage of a container holding a unit.
C8_Witness ==
  /\ obj = "live" /\ unit_size_ = 2 /\ count = 1
  /\ last.op = "operator=" /\ last.err = "NonMultipleRowCount"
  /\ Len(last.vec) = 3 /\ last.vec[1] # combined_vector_[1]

\* C9: after a successful flat-vector assignment (or construction from a
\* flat vector) toEigen is the supplied vector, size() its length and
\* count() its length / unit_size for a non-null unit, -1 for a null unit.
C9_AssignmentReplacesWholeState ==
  (last.op \in {"NAryState(initial)", "operator="} /\ last.err = "none") =>
    /\ obj = "live"
    /\ toEigen = last.vec
    /\ size = Len(last.vec)
    /\ count = unitCountFromRows(Len(last.vec)).val
    /\ (unit_size_ > 0) => (count * unit_size_ = Len(last.vec))
    /\ (unit_size_ = 0) => (count = -1)

\* C9 witness: a one-unit vector has just been assigned to a container.
C9_Witness ==
  /\ obj = "live" /\ unit_size_ = 2 /\ last.op = "operator=" /\ last.err = "none"
  /\ last.vec = <<"1.0", NAN>>

\* C10: for a non-null unit type of u rows, the sized constructor called
\* with any count >= 0 yields size() == count * u and count() == count,
\* every scalar being NAN.
C10_SizedConstructionYieldsCount ==
  (unitVectorRows > 0 /\ last.op = "NAryState(count)" /\ last.cnt >= 0) =>
    /\ obj = "live"
    /\ size = last.cnt * unitVectorRows
    /\ count = last.cnt
    /\ \A k \in 1 .. size : combined_vector_[k] = NAN

\* C11: for a non-null unit type rowsFromUnitCount(count), and with it the
\* sized constructor, fails with NegativeCountForNonNullUnit for every
\* count < 0 and no container is produced; for a null unit every negative
\* count is accepted and gives 0 rows.
C11_NegativeCountRejectedForNonNullUnit ==
  /\ \A c \in PtrdiffT :
       (c < 0) =>
         /\ (unitVectorRows > 0) =>
              (rowsFromUnitCount(c).err = "NegativeCountForNonNullUnit")
         /\ (unitVectorRows = 0) =>
              (rowsFromUnitCount(c) = [err |-> "none", val |-> 0])
  /\ (last.op = "NAryState(count)" /\ last.cnt < 0) =>
       /\ (unitVectorRows > 0) =>
            (obj = "failed" /\ last.err = "NegativeCountForNonNullUnit")
       /\ (unitVectorRows = 0) =>
            (obj = "live" /\ last.err = "none" /\ size = 0)

\* C11 witness: the sized constructor of a two-row unit type has just thrown
\* for the count -1.
C11_Witness ==
  /\ unitVectorRows = 2 /\ last.op = "NAryState(count)" /\ last.cnt = -1
  /\ obj = "failed" /\ last.err = "NegativeCountForNonNullUnit"

\* C12: right after default construction storage is empty and count() is 0
\* for a non-null unit type, -1 for a null unit type.
C12_DefaultConstructionIsEmpty ==
  (last.op = "NAryState()") =>
    /\ obj = "live"
    /\ size = 0
    /\ (unitVectorRows > 0) => (count = 0)
    /\ (unitVectorRows = 0) => (count = -1)

\* C12 witness: a default-constructed container of a non-null unit type.
C12_Witness ==
  /\ obj = "live" /\ last.op = "NAryState()" /\ unitVectorRows = 3

\* C13: for a null unit type append changes neither storage nor count(),
\* which stays -1; get(i) and set(i, v) raise nothing for any index i and
\* do not change storage.
C13_NullUnitCallsChangeNothing ==
  [][(obj = "live" /\ unit_size_ = 0) =>
       /\ \A i \in SizeT : GetResult(i).err = "none"
       /\ (last'.op \in {"append", "get", "set"}) =>
            /\ last'.err = "none"
            /\ combined_vector_' = combined_vector_
            /\ count' = count
            /\ count' = -1]_vars

\* C13 witness: set with the largest index has just returned on a null-unit
\* container whose storage holds rows.
C13_Witness ==
  /\ obj = "live" /\ unit_size_ = 0 /\ size >= 2
  /\ last.op = "set" /\ last.i = SizeMod - 1 /\ last.err = "none"

\* C14: for a non-null unit type append(v) succeeds, grows storage by
\* exactly unit_size rows, leaves every earlier row (so every get(j) below
\* the old count) as it was, writes v into the new tail block and increases
\* count() by exactly 1.
C14_AppendGrowsByOneUnit ==
  [][(obj = "live" /\ unit_size_ > 0 /\ last'.op = "append") =>
       /\ last'.err = "none"
       /\ size' = size + unit_size_
       /\ \A k \in 1 .. size : combined_vector_'[k] = combined_vector_[k]
       /\ \A j \in 0 .. (count - 1) : GetResult(j)' = GetResult(j)
       /\ Block(combined_vector_', size, unit_size_) = last'.unit
       /\ count' = count + 1]_vars

\* C14 witness: a unit has just been appended behind a first unit that
\* differs from it.
C14_Witness ==
  /\ obj = "live" /\ unit_size_ = 2 /\ last.op = "append" /\ count = 2
  /\ last.unit = <<NAN, "1.0">> /\ GetResult(0).ret = <<"1.0", NAN>>

\* unitCountFromRows(rowsFromUnitCount(c)), as the sized constructor
\* evaluates it.
CountRoundTrip(c) ==
  LET r == rowsFromUnitCount(c) IN
  IF r.err # "none" THEN r ELSE unitCountFromRows(r.val)

\* rowsFromUnitCount(unitCountFromRows(r)).
RowsRoundTrip(r) ==
  LET c == unitCountFromRows(r) IN
  IF c.err # "none" THEN c ELSE rowsFromUnitCount(c.val)

\* C15: unitCountFromRows(rowsFromUnitCount(c)) returns c for every c >= 0
\* when unit_size > 0 and -1 for every c when unit_size == 0;
\* rowsFromUnitCount(unitCountFromRows(r)) returns r for every r that is a
\* multiple of unit_size when unit_size > 0.
C15_CodecRoundTrip ==
  (last.op = "NAryState(count)") =>
    /\ (unitVectorRows > 0) =>
         \A c \in PtrdiffT :
           (c >= 0) => (CountRoundTrip(c) = [err |-> "none", val |-> c])
    /\ (unitVectorRows = 0) =>
         \A c \in PtrdiffT : CountRoundTrip(c) = [err |-> "none", val |-> -1]
    /\ (unitVectorRows > 0) =>
         \A r \in SizeT :
           (r % unitVectorRows = 0) => (RowsRoundTrip(r) = [err |-> "none", val |-> r])

\* C16 as stated: the unit type's length is queried exactly once, at
\* construction, and by no call made after construction.
C16_UnitSizeQueriedOnceAtConstruction ==
  /\ (last.op \in {"NAryState()", "NAryState(count)", "NAryState(initial)"}) =>
       (last.calls = 1)
  /\ (last.op \in {"append", "get", "set", "operator="}) => (last.calls = 0)

\* C16 amended: the member unit_size_ is set at construction to the unit
\* type's length and never changes; append, get and set do not query the
\* unit type's length, while every constructor queries it more than once
\* (default and flat: 2, sized: 2 to 4) and every flat-vector assignment
\* queries it once more, through the static codec functions.
C16_UnitSizeCachedButRequeriedByCodec ==
  /\ (obj = "live") => (unit_size_ = unitVectorRows)
  /\ (last.op \in {"append", "get", "set"}) => (last.calls = 0)
  /\ (last.op = "operator=") => (last.calls = 1)
  /\ (last.op \in {"NAryState()", "NAryState(initial)"}) => (last.calls = 2)
  /\ (last.op = "NAryState(count)") =>
       (last.calls = (IF last.err = "NegativeCountForNonNullUnit" THEN 2
                      ELSE IF last.err = "NonMultipleRowCount" THEN 3 ELSE 4))

\* C16 witness: a flat-vector assignment on a constructed container has
\* just queried the unit type's length.
C16_Witness ==
  /\ obj = "live" /\ unit_size_ = 2 /\ count = 1
  /\ last.op = "operator=" /\ last.err = "none" /\ last.calls = 1

\* C17: for a null unit type no constructor and no flat-vector assignment
\* raises an error: unitCountFromRows returns -1 for every row count, a
\* flat vector of any length L gives size() == L and count() == -1, and the
\* sized constructor gives size() == 0 for any count.
C17_NullUnitNeverRaisesDomainError ==
  (unitVectorRows = 0) =>
    /\ \A r \in SizeT : unitCountFromRows(r) = [err |-> "none", val |-> -1]
    /\ \A c \in PtrdiffT : rowsFromUnitCount(c) = [err |-> "none", val |-> 0]
    /\ (last.op \in {"NAryState()", "NAryState(count)", "NAryState(initial)", "operator="}) =>
         (last.err = "none" /\ obj = "live" /\ count = -1)
    /\ (last.op \in {"NAryState(initial)", "operator="}) => (size = Len(last.vec))
    /\ (last.op = "NAryState(count)") => (size = 0)

\* C17 witness: a null-unit container built by the sized constructor from
\* the count -3.
C17_Witness ==
  /\ obj = "live" /\ unitVectorRows = 0
  /\ last.op = "NAryState(count)" /\ last.cnt = -3 /\ size = 0

\* C18: every get(i) or set(i, v) that passes the bounds check addresses a
\* block inside storage: (i + 1) * unit_size <= size() for a non-null unit,
\* the empty block at row 0 for a null unit.
C18_AcceptedBlockLiesInsideStorage ==
  (obj = "live") =>
    /\ \A i \in SizeT :
         IndexAccepted(i) =>
           /\ GetResult(i).row0 + unit_size_ <= size
           /\ (unit_size_ > 0) =>
                ((i + 1) * unit_size_ <= size /\ GetResult(i).row0 = i * unit_size_)
           /\ (unit_size_ = 0) => (GetResult(i).row0 = 0)
           /\ \A k \in 1 .. unit_size_ : GetResult(i).ret[k] # OutOfBuffer
    /\ (last.op \in {"get", "set"} /\ last.err = "none") =>
         (last.row0 + unit_size_ <= size)

\* C18 witness: get(1) has just read rows 2 and 3 of a container of two
\* two-row units.
C18_Witness ==
  /\ obj = "live" /\ unit_size_ = 2 /\ size = 4
  /\ last.op = "get" /\ last.err = "none" /\ last.i = 1 /\ last.row0 = 2

\* C19: in every state x of a constructed container, a new container
\* built from toEigen(x) is built without error and has the count(), size()
\* and storage of x; assigning toEigen(x) to x succeeds and changes nothing.
C19_FlatRepresentationRoundTrips ==
  [][(obj = "live") =>
       /\ FlatConstructResult(toEigen) =
            [err |-> "none", unit_size_ |-> unit_size_, count_ |-> count_,
             combined_vector_ |-> combined_vector_]
       /\ (last'.op = "operator=" /\ last'.vec = toEigen) =>
            /\ last'.err = "none"
            /\ count' = count
            /\ combined_vector_' = combined_vector_
            /\ unit_size_' = unit_size_]_vars

\* C19 witness: a flat-vector assignment has just succeeded on a container
\* of two two-row units.
C19_Witness ==
  /\ obj = "live" /\ unit_size_ = 2 /\ count = 2 /\ size = 4
  /\ last.op = "operator=" /\ last.err = "none" /\ last.vec = toEigen
  /\ combined_vector_[1] # combined_vector_[3]

====
